---- MODULE Spec2Model ----
(***************************************************************************)
(* A model of CMUTweetTagger.py: the TweetTagger session that owns one     *)
(* pexpect child (the ark-tweet-nlp tagger), writes batches of tweets to   *)
(* it and parses the tab-delimited answer.                                 *)
(*                                                                         *)
(* Text is a sequence of characters.  The alphabet keeps every character   *)
(* class the code distinguishes: the letter "a", the digits "0" and "9",   *)
(* the blanks SP, TAB, CR, LF, and two atoms that stand for the literal    *)
(* strings the code searches for: READY (the 'Listening on stdin ...'      *)
(* line of __init__) and BANNER ('Detected text input format').            *)
(***************************************************************************)
EXTENDS Naturals, Sequences, FiniteSets, TLC

CR == "CR"
LF == "LF"
TAB == "TAB"
SP == "SP"
READY == "READY"
BANNER == "BANNER"

CRLF == <<CR, LF>>
BlockSep == <<CR, LF, CR, LF>>
Marker == <<CR, LF, CR, LF, CR, LF>>
Banner == <<BANNER>>

(***************************************************************************)
(* Python string primitives used by the code.                              *)
(***************************************************************************)
\* str.isspace / bytes whitespace of strip()
IsSpace(c) == c \in {SP, TAB, CR, LF}

RECURSIVE LStrip(_)
LStrip(s) == IF s # <<>> /\ IsSpace(Head(s)) THEN LStrip(Tail(s)) ELSE s

RECURSIVE RStrip(_)
RStrip(s) ==
    IF s # <<>> /\ IsSpace(s[Len(s)]) THEN RStrip(SubSeq(s, 1, Len(s) - 1)) ELSE s

\* s.strip()
Strip(s) == RStrip(LStrip(s))

\* s.find(p) + 1: the 1-based index of the first occurrence of p, 0 if none
RECURSIVE FindFrom(_, _, _)
FindFrom(s, p, i) ==
    IF i + Len(p) - 1 > Len(s) THEN 0
    ELSE IF SubSeq(s, i, i + Len(p) - 1) = p THEN i
    ELSE FindFrom(s, p, i + 1)

Find(s, p) == FindFrom(s, p, 1)

\* s.split(sep) for a non-empty separator: never empty, pieces left to right
RECURSIVE Split(_, _)
Split(s, sep) ==
    LET i == Find(s, sep)
    IN IF i = 0 THEN <<s>>
       ELSE <<SubSeq(s, 1, i - 1)>> \o Split(SubSeq(s, i + Len(sep), Len(s)), sep)

\* sep.join(parts)
RECURSIVE Join(_, _)
Join(parts, sep) ==
    IF parts = <<>> THEN <<>>
    ELSE IF Len(parts) = 1 THEN parts[1]
    ELSE parts[1] \o sep \o Join(Tail(parts), sep)

\* s.count(c) for a single character
RECURSIVE Count(_, _)
Count(s, c) ==
    IF s = <<>> THEN 0
    ELSE (IF Head(s) = c THEN 1 ELSE 0) + Count(Tail(s), c)

\* s.replace(c, r) for single characters
Replace(s, c, r) == [i \in 1..Len(s) |-> IF s[i] = c THEN r ELSE s[i]]

\* float(s): surrounding blanks are ignored, then a decimal numeral is
\* required; anything else raises ValueError.
DigitVal(c) == IF c = "9" THEN 9 ELSE 0

IsDigit(c) == c \in {"0", "9"}

RECURSIVE DecVal(_)
DecVal(s) == IF s = <<>> THEN 0 ELSE 10 * DecVal(SubSeq(s, 1, Len(s) - 1)) + DigitVal(s[Len(s)])

FloatOk(s) == Strip(s) # <<>> /\ \A i \in 1..Len(Strip(s)) : IsDigit(Strip(s)[i])

FloatVal(s) == DecVal(Strip(s))

(***************************************************************************)
(* The pure parts of TweetTagger.                                          *)
(***************************************************************************)
\* One row of _parse_raw_result (lines 82-89): "skip" when the stripped row
\* is empty or has not exactly two tabs, "raise" when float() rejects the
\* third field, else the record (tokens, tags, confidence).
ParseRow(row) ==
    LET line == Strip(row)
    IN IF Len(line) > 0 /\ Count(line, TAB) = 2
       THEN LET parts == Split(line, <<TAB>>)
            IN IF FloatOk(parts[3])
               THEN [kind |-> "rec", rec |-> <<parts[1], parts[2], FloatVal(parts[3])>>]
               ELSE [kind |-> "raise", rec |-> <<>>]
       ELSE [kind |-> "skip", rec |-> <<>>]

RECURSIVE Records(_)
Records(rows) ==
    IF rows = <<>> THEN <<>>
    ELSE LET r == ParseRow(Head(rows))
         IN IF r.kind = "rec" THEN <<r.rec>> \o Records(Tail(rows))
            ELSE Records(Tail(rows))

\* list(self._parse_raw_result(raw_result)): the records of the rows in
\* order, or the ValueError of the first row float() rejects.
parse_raw_result(raw_result) ==
    LET rows == Split(raw_result, CRLF)
    IN [raised |-> \E i \in 1..Len(rows) : ParseRow(rows[i]).kind = "raise",
        recs |-> Records(rows)]

\* a cleaning that forgets the carriage return
Clean_lf_only(tw) == Replace(tw, LF, SP)

\* Line 97: tw.replace('\n', ' ').replace('\r', ' ')
Clean(tw) == Replace(Replace(tw, LF, SP), CR, SP)

tweets_cleaned(tws) == [i \in 1..Len(tws) |-> Clean(tws[i])]

\* Line 98: "\n".join(tweets_cleaned)
message(tws) == Join(tweets_cleaned(tws), <<LF>>)

\* Line 105: the bytes handed to proc.write (the alphabet is ASCII, so the
\* UTF-8 encoding of a character is the character)
Written(tws) == message(tws) \o <<LF, LF>>

\* Lines 115-121: the raw blocks cut out of proc.before
raw_results(before) ==
    LET raw == Strip(before)
        trimmed == Strip(Join(Split(raw, Banner), <<>>))
    IN Split(trimmed, BlockSep)

\* a return expression that leaves out the blocks without records
BatchValue_drops_empty(before) ==
    SelectSeq([i \in 1..Len(raw_results(before)) |->
                  parse_raw_result(raw_results(before)[i]).recs],
              LAMBDA r : r # <<>>)

\* Line 123: one parsed list per raw block
Parsed(before) ==
    LET rr == raw_results(before)
    IN [i \in 1..Len(rr) |-> parse_raw_result(rr[i])]

BatchRaises(before) == \E i \in 1..Len(Parsed(before)) : Parsed(before)[i].raised

BatchValue(before) == [i \in 1..Len(Parsed(before)) |-> Parsed(before)[i].recs]

(***************************************************************************)
(* Bounds and the inputs drawn in the model.                               *)
(***************************************************************************)
\* texts one session submits in all its batch() calls together
MaxTexts == 2

\* tweets a caller submits: empty, a word, a blank-only text
Texts == {<<>>, <<"a">>, <<SP>>}

Batches == UNION {[1..n -> Texts] : n \in 0..MaxTexts}

Cost(tws) == IF Len(tws) = 0 THEN 1 ELSE Len(tws)

(***************************************************************************)
(* The tagger process.  It is not part of the repository: its side of the  *)
(* wire protocol is taken from the protocol description (one block of      *)
(* lines per request line, blocks separated by CRLF CRLF, the answer       *)
(* closed by CRLF CRLF CRLF).                                              *)
(***************************************************************************)
LGood1 == <<"a", TAB, "a", TAB, "9">>
LGood2 == <<"a", "a", TAB, "a", TAB, "9", "0">>
LOneTab == <<"a", TAB, "9">>
LNonNum == <<"a", TAB, "a", TAB, "a">>

\* the blocks the tagger may print for a text that has tokens
TokenBlocks == {<<LGood1, LGood2>>, <<LOneTab, LGood2>>, <<LGood1, LNonNum>>}

\* a text without tokens gets a block without lines
BlocksFor(item) == IF Strip(item) = <<>> THEN {<<>>} ELSE TokenBlocks

\* the request lines the tagger reads from one written message
RequestItems(msg) == Split(SubSeq(msg, 1, Len(msg) - 2), <<LF>>)

Answers(items) ==
    {bs \in [1..Len(items) -> TokenBlocks \cup {<<>>}] :
        \A i \in 1..Len(items) : bs[i] \in BlocksFor(items[i])}

BlockText(b) == Join(b, CRLF)

Response(bs) == Join([i \in 1..Len(bs) |-> BlockText(bs[i])], BlockSep) \o Marker

(***************************************************************************)
(* State.                                                                  *)
(***************************************************************************)
VARIABLES
    pc,        \* the caller: "new", "ctor" (in __init__ at line 61), "body"
               \* (holding the session), "expect" (in batch at line 109),
               \* "failed" (__init__ raised), "done" (left the session)
    scoped,    \* the session is used in a with statement
    proc,      \* the child: "none", "booting", "listening", "exited"
    hup,       \* signal 1 has been sent to the child
    killed,    \* kill() has been called
    readied,   \* the child has printed the readiness line
    out,       \* child output pexpect has not consumed yet
    inp,       \* messages written to the child it has not read yet
    tweets,    \* argument of the current / latest batch() call
    written,   \* bytes of the latest proc.write (line 105)
    sent,      \* texts submitted so far
    afterKill, \* the current / latest batch() call began after a kill()
               \* that signalled the child
    blocks,    \* blocks of the child's latest answer
    result,    \* value returned by the latest batch() call that returned
    outcome,   \* how the latest batch() call ended
    exc,       \* exception that reached the caller
    callers,   \* two callers sharing a ready session, one batch() call each:
               \* per caller its place in batch(), argument, result, ending,
               \* and the blocks the child answered to its message
    owners,    \* the callers whose messages are in inp, in order
    mutex      \* "none" (the callers use no mutex), "free", or its holder

vars == <<pc, scoped, proc, hup, killed, readied, out, inp, tweets, written, sent,
          afterKill, blocks, result, outcome, exc, callers, owners, mutex>>

concVars == <<callers, owners, mutex>>

Callers == {"c1", "c2"}

\* a caller that has not called batch() yet
IdleCaller == [pc |-> "idle", tweets |-> <<>>, result |-> <<>>,
               outcome |-> "none", answer |-> <<>>]

\* no second caller: the session has the one caller of pc
NoCallers ==
    /\ callers = [c \in Callers |-> IdleCaller]
    /\ owners = <<>>
    /\ mutex = "none"

Alive == proc \in {"booting", "listening"}

Init ==
    /\ pc = "new"
    /\ scoped = FALSE
    /\ proc = "none"
    /\ hup = FALSE
    /\ killed = FALSE
    /\ readied = FALSE
    /\ out = <<>>
    /\ inp = <<>>
    /\ tweets = <<>>
    /\ written = <<>>
    /\ sent = 0
    /\ afterKill = FALSE
    /\ blocks = <<>>
    /\ result = <<>>
    /\ outcome = "none"
    /\ exc = "none"
    /\ NoCallers

(***************************************************************************)
(* The tagger process and the operating system.                            *)
(***************************************************************************)
\* the child prints the readiness line
EngineReady ==
    /\ proc = "booting"
    /\ proc' = "listening"
    /\ readied' = TRUE
    /\ out' = out \o <<READY>>
    /\ UNCHANGED <<pc, scoped, hup, killed, inp, tweets, written, sent, afterKill,
                   blocks, result, outcome, exc>>
    /\ UNCHANGED concVars

\* the child answers the oldest message it has not read
EngineRespond ==
    /\ proc = "listening"
    /\ inp # <<>>
    /\ \E bs \in Answers(RequestItems(Head(inp))) :
          /\ out' = out \o Response(bs)
          /\ blocks' = bs
    /\ inp' = Tail(inp)
    /\ UNCHANGED <<pc, scoped, proc, hup, killed, readied, tweets, written, sent,
                   afterKill, result, outcome, exc>>
    /\ UNCHANGED concVars

\* the child exits: on its own, or because a signal 1 sent earlier is
\* delivered (delivery is asynchronous: kill() returns before it)
ProcExit ==
    /\ Alive
    /\ proc' = "exited"
    /\ UNCHANGED <<pc, scoped, hup, killed, readied, out, inp, tweets, written, sent,
                   afterKill, blocks, result, outcome, exc>>
    /\ UNCHANGED concVars

(***************************************************************************)
(* TweetTagger.                                                            *)
(***************************************************************************)
\* a kill that signals without asking whether the child is alive
kill_unguarded ==
    /\ killed' = TRUE
    /\ hup' = TRUE

\* kill (lines 64-65): pexpect's spawn.kill(sig) sends the signal only if
\* isalive(); on a child that has exited it does nothing.
kill ==
    /\ killed' = TRUE
    /\ hup' = (hup \/ Alive)

\* an __exit__ that leaves the child alone
exit_no_kill == UNCHANGED <<hup, killed>>

\* __exit__ (lines 72-73)
exit == kill

\* An exception leaves batch() or the with body: the caller loses the
\* session, and a with statement runs __exit__ on the way out.
Raise(e) ==
    /\ exc' = e
    /\ pc' = "done"
    /\ IF scoped THEN exit ELSE UNCHANGED <<hup, killed>>

\* __init__, lines 59-60: spawn the child, then wait at line 61
Construct(sc) ==
    /\ pc = "new"
    /\ pc' = "ctor"
    /\ scoped' = sc
    /\ proc' = "booting"
    /\ UNCHANGED <<hup, killed, readied, out, inp, tweets, written, sent, afterKill,
                   blocks, result, outcome, exc>>
    /\ UNCHANGED concVars

\* __init__, line 61: expect() finds the readiness line; __enter__ returns
\* the session itself
CtorMatch ==
    /\ pc = "ctor"
    /\ Find(out, <<READY>>) > 0
    /\ out' = SubSeq(out, Find(out, <<READY>>) + 1, Len(out))
    /\ pc' = "body"
    /\ UNCHANGED <<scoped, proc, hup, killed, readied, inp, tweets, written, sent,
                   afterKill, blocks, result, outcome, exc>>
    /\ UNCHANGED concVars

\* a constructor that swallows the failure of expect() and returns
ctor_swallow(e) ==
    /\ pc' = "body"
    /\ exc' = exc

\* what __init__ does when expect() raises: nothing catches it
ctor_raise(e) ==
    /\ pc' = "failed"
    /\ exc' = e

\* __init__, line 61: the child is gone and the line was not printed
CtorEOF ==
    /\ pc = "ctor"
    /\ Find(out, <<READY>>) = 0
    /\ proc = "exited"
    /\ ctor_raise("EOF")
    /\ UNCHANGED <<scoped, proc, hup, killed, readied, out, inp, tweets, written, sent,
                   afterKill, blocks, result, outcome>>
    /\ UNCHANGED concVars

\* an expect() told to wait without a timeout
ctor_expect_no_timeout == FALSE

\* whether expect() at line 61 gives up waiting: spawn() was given no
\* timeout, so pexpect's default of 30 seconds applies
ctor_expect_times_out == TRUE

\* __init__, line 61: the line has not come within the timeout
CtorTimeout ==
    /\ pc = "ctor"
    /\ Find(out, <<READY>>) = 0
    /\ Alive
    /\ ctor_expect_times_out
    /\ ctor_raise("TIMEOUT")
    /\ UNCHANGED <<scoped, proc, hup, killed, readied, out, inp, tweets, written, sent,
                   afterKill, blocks, result, outcome>>
    /\ UNCHANGED concVars

\* batch, lines 97-105: clean, join and write; then wait at line 109.
\* Bytes written to a child that has exited are read by nobody.
BatchWrite(tws) ==
    /\ pc = "body"
    /\ sent + Cost(tws) <= MaxTexts
    /\ tweets' = tws
    /\ written' = Written(tws)
    /\ sent' = sent + Cost(tws)
    /\ afterKill' = hup
    /\ inp' = IF proc = "exited" THEN inp ELSE Append(inp, written')
    /\ outcome' = "pending"
    /\ pc' = "expect"
    /\ UNCHANGED <<scoped, proc, hup, killed, readied, out, blocks, result, exc>>
    /\ UNCHANGED concVars

\* batch, line 105: the write to the pty of a child that has exited fails
\* (EIO); line 105 is outside the try, so the OSError leaves batch()
BatchWriteFails(tws) ==
    /\ pc = "body"
    /\ sent + Cost(tws) <= MaxTexts
    /\ proc = "exited"
    /\ tweets' = tws
    /\ sent' = sent + Cost(tws)
    /\ afterKill' = hup
    /\ outcome' = "oserror"
    /\ Raise("OSError")
    /\ UNCHANGED <<scoped, proc, readied, out, inp, written, blocks, result>>
    /\ UNCHANGED concVars

\* proc.before when expect() matches the marker
Before == SubSeq(out, 1, Find(out, Marker) - 1)

AfterMarker == SubSeq(out, Find(out, Marker) + Len(Marker), Len(out))

\* batch, lines 109-123: the marker is found and every row parses
BatchReturn ==
    /\ pc = "expect"
    /\ Find(out, Marker) > 0
    /\ ~BatchRaises(Before)
    /\ result' = BatchValue(Before)
    /\ out' = AfterMarker
    /\ outcome' = "match"
    /\ pc' = "body"
    /\ UNCHANGED <<scoped, proc, hup, killed, readied, inp, tweets, written, sent,
                   afterKill, blocks, exc>>
    /\ UNCHANGED concVars

\* batch, lines 109-123: the marker is found and float() rejects a row; the
\* ValueError is raised at line 123, outside the try
BatchParseError ==
    /\ pc = "expect"
    /\ Find(out, Marker) > 0
    /\ BatchRaises(Before)
    /\ out' = AfterMarker
    /\ outcome' = "valueerror"
    /\ Raise("ValueError")
    /\ UNCHANGED <<scoped, proc, readied, inp, tweets, written, sent, afterKill,
                   blocks, result>>
    /\ UNCHANGED concVars

\* an except clause that logs and falls through to the parsing of
\* whatever has been read
batch_except_falls_through ==
    /\ result' = BatchValue(out)
    /\ pc' = "body"
    /\ UNCHANGED exc

\* the except clause of batch, lines 110-112
batch_except ==
    /\ result' = <<>>
    /\ pc' = "body"
    /\ UNCHANGED exc

\* a timeout that also withdraws the request and flushes the stream
BatchTimeout_discards ==
    /\ pc = "expect"
    /\ Find(out, Marker) = 0
    /\ proc # "exited"
    /\ outcome' = "timeout"
    /\ batch_except
    /\ out' = <<>>
    /\ inp' = <<>>
    /\ UNCHANGED <<scoped, proc, hup, killed, readied, tweets, written, sent,
                   afterKill, blocks>>
    /\ UNCHANGED concVars

\* batch, lines 109-112: no marker within 30 seconds
BatchTimeout ==
    /\ pc = "expect"
    /\ Find(out, Marker) = 0
    /\ proc # "exited"
    /\ outcome' = "timeout"
    /\ batch_except
    /\ UNCHANGED <<scoped, proc, hup, killed, readied, out, inp, tweets, written, sent,
                   afterKill, blocks>>
    /\ UNCHANGED concVars

\* batch, lines 109-112: end of file before the marker
BatchEOF ==
    /\ pc = "expect"
    /\ Find(out, Marker) = 0
    /\ proc = "exited"
    /\ outcome' = "eof"
    /\ out' = <<>>
    /\ batch_except
    /\ UNCHANGED <<scoped, proc, hup, killed, readied, inp, tweets, written, sent,
                   afterKill, blocks>>
    /\ UNCHANGED concVars

\* the caller calls kill() on the session it holds
Kill ==
    /\ pc = "body"
    /\ kill
    /\ UNCHANGED <<pc, scoped, proc, readied, out, inp, tweets, written, sent,
                   afterKill, blocks, result, outcome, exc>>
    /\ UNCHANGED concVars

\* the with body ends normally (lines 127-140)
LeaveScope ==
    /\ pc = "body"
    /\ scoped
    /\ exit
    /\ pc' = "done"
    /\ UNCHANGED <<scoped, proc, readied, out, inp, tweets, written, sent, afterKill,
                   blocks, result, outcome, exc>>
    /\ UNCHANGED concVars

\* the with body raises an error of its own
BodyRaise ==
    /\ pc = "body"
    /\ scoped
    /\ Raise("BodyError")
    /\ UNCHANGED <<scoped, proc, readied, out, inp, tweets, written, sent, afterKill,
                   blocks, result, outcome>>
    /\ UNCHANGED concVars

Next ==
    \/ \E sc \in BOOLEAN : Construct(sc)
    \/ EngineReady
    \/ EngineRespond
    \/ ProcExit
    \/ CtorMatch
    \/ CtorEOF
    \/ CtorTimeout
    \/ \E tws \in Batches : BatchWrite(tws)
    \/ \E tws \in Batches : BatchWriteFails(tws)
    \/ BatchReturn
    \/ BatchParseError
    \/ BatchTimeout
    \/ BatchEOF
    \/ Kill
    \/ LeaveScope
    \/ BodyRaise

Spec == Init /\ [][Next]_vars

\* The constructor's code keeps running: when the expect() of line 61 can
\* return or raise, it does.
Ctor == CtorMatch \/ CtorEOF \/ CtorTimeout

FairSpec == Spec /\ WF_vars(Ctor)

(***************************************************************************)
(* Lines 97-105 on their own: every batch of texts over the characters     *)
(* "a", CR, LF up to the bounds, cleaned, joined and framed.               *)
(***************************************************************************)
\* characters of one text
MaxLen == 2

FrameTexts == UNION {[1..n -> {"a", CR, LF}] : n \in 0..MaxLen}

FrameBatches == UNION {[1..n -> FrameTexts] : n \in 0..MaxTexts}

FrameInit ==
    /\ pc = "frame"
    /\ tweets \in FrameBatches
    /\ scoped = FALSE
    /\ proc = "listening"
    /\ hup = FALSE
    /\ killed = FALSE
    /\ readied = TRUE
    /\ out = <<>>
    /\ inp = <<>>
    /\ written = <<>>
    /\ sent = 0
    /\ afterKill = FALSE
    /\ blocks = <<>>
    /\ result = <<>>
    /\ outcome = "none"
    /\ exc = "none"
    /\ NoCallers

Frame ==
    /\ pc = "frame"
    /\ written' = Written(tweets)
    /\ pc' = "framed"
    /\ UNCHANGED <<scoped, proc, hup, killed, readied, out, inp, tweets, sent,
                   afterKill, blocks, result, outcome, exc>>
    /\ UNCHANGED concVars

SpecFrame == FrameInit /\ [][Frame]_vars

(***************************************************************************)
(* Properties.                                                             *)
(***************************************************************************)
\* the first batch() call of a session: nothing older is in the stream
FirstCall == sent = Cost(tweets)

\* the records a block holds, read off its lines
BlockRecords(b) == parse_raw_result(BlockText(b)).recs

\* a line of the shape tokens TAB tags TAB number
WellFormed(l) == ParseRow(l).kind = "rec"

HasCRLF(t) == \E j \in 1..Len(t) : t[j] \in {CR, LF}

\* C1: a batch of N >= 1 non-empty texts without CR/LF, answered with one
\* block per text, returns N inner sequences, the i-th holding the records
\* of the i-th block in the order of its lines.
C1_OneEntryPerInput ==
    (/\ outcome = "match"
     /\ FirstCall
     /\ Len(tweets) >= 1
     /\ \A i \in 1..Len(tweets) : tweets[i] # <<>> /\ ~HasCRLF(tweets[i])
     /\ Len(blocks) = Len(tweets))
    => /\ Len(result) = Len(tweets)
       /\ \A i \in 1..Len(tweets) : result[i] = BlockRecords(blocks[i])

\* C2: a block without a valid line (the block of an empty text, at any
\* position) gives an empty inner sequence at its own position of the result.
C2_EmptyBlockKeepsItsEntry ==
    (outcome = "match" /\ FirstCall)
    => \A i \in 1..Len(blocks) :
          (\A j \in 1..Len(blocks[i]) : ~WellFormed(blocks[i][j]))
          => (i <= Len(result) /\ result[i] = <<>>)

\* C3: whenever the wait at line 109 ends without the marker in the stream
\* (timeout, end of file), batch() returns the empty sequence to the caller,
\* whatever the batch, and no exception reaches the caller.
C3_TimeoutReturnsEmpty ==
    [][(pc = "expect" /\ pc' # "expect" /\ Find(out, Marker) = 0)
        => (result' = <<>> /\ pc' = "body" /\ exc' = exc)]_vars

C3_Witness ==
    /\ outcome = "timeout"
    /\ pc = "body"
    /\ Len(tweets) = 2
    /\ result = <<>>
    /\ exc = "none"
    /\ NoCallers

\* the records of the well-formed lines of a block, in order
RECURSIVE WellFormedRecords(_)
WellFormedRecords(b) ==
    IF b = <<>> THEN <<>>
    ELSE (IF WellFormed(Head(b)) THEN <<ParseRow(Head(b)).rec>> ELSE <<>>)
         \o WellFormedRecords(Tail(b))

\* C4: a line with one tab, or with two tabs and a non-numeric third field,
\* is skipped: once the marker is found batch() raises nothing and returns,
\* for every block, the records of its other lines.
C4_MalformedLinesSkipped ==
    (/\ outcome \in {"match", "valueerror"}
     /\ FirstCall
     /\ \A i \in 1..Len(blocks) : blocks[i] # <<>>)
    => /\ outcome = "match"
       /\ Len(result) = Len(blocks)
       /\ \A i \in 1..Len(blocks) :
             result[i] = WellFormedRecords(blocks[i])

\* the request lines of a written message: what precedes the two closing
\* line feeds, cut at every line feed
RequestLines(bytes) == Split(SubSeq(bytes, 1, Len(bytes) - 2), <<LF>>)

\* what C5 says of one batch and the bytes written for it
CleanedAndCounted(tws, bytes) ==
    LET lines == RequestLines(bytes)
    IN /\ Len(lines) = Len(tws)
       /\ \A i \in 1..Len(tws) :
             /\ Len(lines[i]) = Len(tws[i])
             /\ \A j \in 1..Len(tws[i]) :
                   lines[i][j] = IF tws[i][j] \in {CR, LF} THEN SP ELSE tws[i][j]
       /\ \A i \in 1..Len(lines) : ~HasCRLF(lines[i])

\* C5 as stated: for every batch, each request line is its text with every
\* CR and LF replaced by one space, no line holds a CR or LF, and there are
\* as many request lines as texts.
C5_EveryBatch == pc = "framed" => CleanedAndCounted(tweets, written)

\* C5 as amended: the same for every batch of at least one text.
C5_NonEmptyBatch ==
    (pc = "framed" /\ Len(tweets) >= 1) => CleanedAndCounted(tweets, written)

C5_Witness ==
    /\ pc = "framed"
    /\ tweets = <<<<"a", LF>>, <<CR, "a">>>>
    /\ written = <<"a", SP, LF, SP, "a", LF, LF>>

\* C6: a batch() call begun after kill() always ends the same way, as the
\* failure the wait at line 109 turns into (the empty result), and never
\* with records.
C6_BatchAfterKillFails ==
    (afterKill /\ outcome \notin {"none", "pending"})
    => (outcome \in {"eof", "timeout"} /\ result = <<>>)

\* C7: once a with block over the session has been left, by its end, after
\* a batch that timed out, or by an error, the child has been sent signal 1
\* unless it had exited already.
C7_ScopeExitKills ==
    (scoped /\ pc = "done") => (killed /\ (hup \/ proc = "exited"))

C7_Witness ==
    /\ scoped
    /\ pc = "done"
    /\ exc = "BodyError"
    /\ outcome = "timeout"
    /\ hup
    /\ proc = "listening"

\* C8: the constructor returns only after the readiness line was printed
\* and read, so every batch is written after it.
C8_ReadyBeforeWrite ==
    (pc \in {"body", "expect", "done"} \/ outcome # "none" \/ inp # <<>>)
    => (readied /\ Find(out, <<READY>>) = 0)

C8_Witness ==
    /\ pc = "expect"
    /\ inp # <<>>
    /\ readied

\* C9: while the readiness line has not been printed the constructor gives
\* no session to the caller, and a constructor that waits for it does not
\* wait forever: it raises, unless the line is printed after all.
C9_StartupFails ==
    /\ [](~readied => pc \in {"new", "ctor", "failed"})
    /\ ((pc = "ctor") ~> (pc = "failed" \/ readied))

C9_Witness ==
    /\ pc = "failed"
    /\ exc = "TIMEOUT"
    /\ ~readied
    /\ proc = "booting"

\* C10: kill(), called by the caller or by __exit__, on a session whose
\* child has exited changes nothing and raises nothing.
C10_KillOnExitedIsNoOp ==
    [][((Kill \/ LeaveScope) /\ proc = "exited")
        => UNCHANGED <<proc, hup, readied, out, inp, result, outcome, exc>>]_vars

C10_Witness ==
    /\ scoped
    /\ pc = "done"
    /\ exc = "none"
    /\ NoCallers
    /\ killed
    /\ ~hup
    /\ proc = "exited"

\* C11: a timeout of batch() only ends the wait: it takes nothing out of the
\* stream, withdraws no request and leaves the child running, so the answer
\* to the timed-out batch can reach a later call (C11_Witness).
C11_TimeoutOnlyCancelsWaiting ==
    [][(pc = "expect" /\ outcome' = "timeout")
        => (out' = out /\ inp' = inp /\ proc' = proc /\ hup' = hup)]_vars

\* the second call, for a blank text, has returned records although the child
\* has not read its message yet: they are the answer to the first call,
\* which timed out
C11_Witness ==
    /\ sent = 2
    /\ tweets = <<<<SP>>>>
    /\ inp = <<written>>
    /\ outcome = "match"
    /\ Len(result) = 1
    /\ result[1] = BlockRecords(blocks[1])
    /\ result[1] # <<>>

\* C12: when batch() returns after finding the marker, the marker was the
\* end of the answer to this batch: every block of the answer is in the text
\* that is parsed and nothing of the answer stays in the stream.
C12_MarkerEndsTheAnswer ==
    (outcome \in {"match", "valueerror"} /\ FirstCall)
    => /\ out = <<>>
       /\ outcome = "match" => Len(result) = Len(blocks)

\* C15: the bytes written for a batch hold two consecutive line feeds only
\* as their last two bytes.
C15_DoubleLineFeedOnlyAtEnd ==
    pc = "framed"
    => \A i \in 1..(Len(written) - 1) :
          (written[i] = LF /\ written[i + 1] = LF) => i = Len(written) - 1

\* C16: batch() returns the empty sequence exactly when the wait for the
\* marker failed; when the marker is found the result has at least one
\* entry, also for an empty list of texts.
C16_EmptyIffWaitFailed ==
    /\ outcome = "match" => Len(result) >= 1
    /\ outcome \in {"timeout", "eof"} => result = <<>>

C16_Witness ==
    /\ outcome = "match"
    /\ tweets = <<>>
    /\ blocks = <<<<>>>>
    /\ result = <<<<>>>>

(***************************************************************************)
(* The banner.  The tagger may print 'Detected text input format' into its *)
(* answer, as the bare text or as a line of its own; here one batch is in  *)
(* flight on a fresh session and the answer carries one banner somewhere   *)
(* before the closing marker.                                              *)
(***************************************************************************)
BannerLine == Banner \o CRLF

InsertAt(s, p, x) == SubSeq(s, 1, p) \o x \o SubSeq(s, p + 1, Len(s))

\* p is the start of a line of s
LineStart(s, p) == p = 0 \/ (p >= 2 /\ s[p - 1] = CR /\ s[p] = LF)

\* the answer with the banner put in before the closing marker
Bannered(resp) ==
    {InsertAt(resp, p, Banner) : p \in 0..(Len(resp) - Len(Marker))}
    \cup {InsertAt(resp, p, BannerLine) :
            p \in {q \in 0..(Len(resp) - Len(Marker)) : LineStart(resp, q)}}

EngineRespondBanner ==
    /\ proc = "listening"
    /\ inp # <<>>
    /\ \E bs \in Answers(RequestItems(Head(inp))) :
          /\ out' \in {out \o r : r \in Bannered(Response(bs))}
          /\ blocks' = bs
    /\ inp' = Tail(inp)
    /\ UNCHANGED <<pc, scoped, proc, hup, killed, readied, tweets, written, sent,
                   afterKill, result, outcome, exc>>
    /\ UNCHANGED concVars

\* a ready session right after the write of its first batch
BannerInit ==
    /\ pc = "expect"
    /\ tweets \in Batches
    /\ written = Written(tweets)
    /\ inp = <<written>>
    /\ sent = Cost(tweets)
    /\ scoped = FALSE
    /\ proc = "listening"
    /\ hup = FALSE
    /\ killed = FALSE
    /\ readied = TRUE
    /\ out = <<>>
    /\ afterKill = FALSE
    /\ blocks = <<>>
    /\ result = <<>>
    /\ outcome = "pending"
    /\ exc = "none"
    /\ NoCallers

BannerNext ==
    \/ EngineRespondBanner
    \/ BatchReturn
    \/ BatchParseError

SpecBanner == BannerInit /\ [][BannerNext]_vars

\* proc.before for the answer as the tagger prints it without the banner
PlainBefore == SubSeq(Response(blocks), 1, Find(Response(blocks), Marker) - 1)

\* C14: with the banner in the answer, batch() ends as it does on the same
\* answer without it: the same outer entries at the same positions.
C14_BannerChangesNothing ==
    (outcome \in {"match", "valueerror"} /\ FirstCall)
    => /\ (outcome = "valueerror") = BatchRaises(PlainBefore)
       /\ outcome = "match" => result = BatchValue(PlainBefore)

(***************************************************************************)
(* Two callers on one ready session, each making one batch() call.  The    *)
(* session has one child and one output stream: the writes of both callers *)
(* go to the same pty and both wait on the same stream.  The callers       *)
(* either use no mutex or hold one for the whole of their call.            *)
(***************************************************************************)
\* texts the two callers submit together
MaxConcTexts == 4

ConcTexts == {<<>>, <<"a">>}

\* a batch leaves room for a call of the other caller
ConcBatches == UNION {[1..n -> ConcTexts] : n \in 0..(MaxConcTexts - 1)}

Release == IF mutex = "none" THEN "none" ELSE "free"

\* batch, lines 92-105, entered by caller c (with the mutex, when one is used)
ConcWrite(c, tws) ==
    /\ callers[c].pc = "idle"
    /\ mutex \in {"none", "free"}
    /\ sent + Cost(tws) <= MaxConcTexts
    /\ sent' = sent + Cost(tws)
    /\ mutex' = IF mutex = "none" THEN "none" ELSE c
    /\ inp' = Append(inp, Written(tws))
    /\ owners' = Append(owners, c)
    /\ callers' = [callers EXCEPT ![c] = [@ EXCEPT !.pc = "expect", !.tweets = tws,
                                                  !.outcome = "pending"]]
    /\ UNCHANGED <<pc, scoped, proc, hup, killed, readied, out, tweets, written,
                   afterKill, blocks, result, outcome, exc>>

\* the tagger answers the oldest unread message
ConcEngineRespond ==
    /\ proc = "listening"
    /\ inp # <<>>
    /\ \E bs \in Answers(RequestItems(Head(inp))) :
          /\ out' = out \o Response(bs)
          /\ callers' = [callers EXCEPT ![Head(owners)] = [@ EXCEPT !.answer = bs]]
    /\ inp' = Tail(inp)
    /\ owners' = Tail(owners)
    /\ UNCHANGED <<pc, scoped, proc, hup, killed, readied, tweets, written, sent,
                   afterKill, blocks, result, outcome, exc, mutex>>

\* batch, lines 109-123, in caller c: the marker is found and every row parses
ConcReturn(c) ==
    /\ callers[c].pc = "expect"
    /\ Find(out, Marker) > 0
    /\ ~BatchRaises(Before)
    /\ callers' = [callers EXCEPT ![c] = [@ EXCEPT !.pc = "done", !.outcome = "match",
                                                  !.result = BatchValue(Before)]]
    /\ out' = AfterMarker
    /\ mutex' = Release
    /\ UNCHANGED <<pc, scoped, proc, hup, killed, readied, inp, tweets, written, sent,
                   afterKill, blocks, result, outcome, exc, owners>>

\* batch, lines 109-123, in caller c: the marker is found and float() rejects
\* a row
ConcParseError(c) ==
    /\ callers[c].pc = "expect"
    /\ Find(out, Marker) > 0
    /\ BatchRaises(Before)
    /\ callers' = [callers EXCEPT ![c] = [@ EXCEPT !.pc = "done",
                                                  !.outcome = "valueerror"]]
    /\ out' = AfterMarker
    /\ mutex' = Release
    /\ UNCHANGED <<pc, scoped, proc, hup, killed, readied, inp, tweets, written, sent,
                   afterKill, blocks, result, outcome, exc, owners>>

\* batch, lines 109-112, in caller c: no marker within 30 seconds
ConcTimeout(c) ==
    /\ callers[c].pc = "expect"
    /\ Find(out, Marker) = 0
    /\ callers' = [callers EXCEPT ![c] = [@ EXCEPT !.pc = "done", !.outcome = "timeout",
                                                  !.result = <<>>]]
    /\ mutex' = Release
    /\ UNCHANGED <<pc, scoped, proc, hup, killed, readied, out, inp, tweets, written,
                   sent, afterKill, blocks, result, outcome, exc, owners>>

\* a ready session that no batch() call has used yet
ConcInit ==
    /\ pc = "body"
    /\ scoped = FALSE
    /\ proc = "listening"
    /\ hup = FALSE
    /\ killed = FALSE
    /\ readied = TRUE
    /\ out = <<>>
    /\ inp = <<>>
    /\ tweets = <<>>
    /\ written = <<>>
    /\ sent = 0
    /\ afterKill = FALSE
    /\ blocks = <<>>
    /\ result = <<>>
    /\ outcome = "none"
    /\ exc = "none"
    /\ callers = [c \in Callers |-> IdleCaller]
    /\ owners = <<>>
    /\ mutex \in {"none", "free"}

ConcNext ==
    \/ \E c \in Callers, tws \in ConcBatches : ConcWrite(c, tws)
    \/ ConcEngineRespond
    \/ \E c \in Callers : ConcReturn(c)
    \/ \E c \in Callers : ConcParseError(c)
    \/ \E c \in Callers : ConcTimeout(c)

SpecConc == ConcInit /\ [][ConcNext]_vars

\* the records of the blocks the tagger answered to the message of caller c
OwnRecords(c) == {BlockRecords(callers[c].answer[j]) : j \in 1..Len(callers[c].answer)}

NoTimeout == \A d \in Callers : callers[d].outcome # "timeout"

\* C13: when the callers hold a mutex for the whole call and no call timed
\* out, every inner sequence with records that a call returns holds the
\* records of a block answered to its own batch.
C13_MutexIsolatesCalls ==
    \A c \in Callers :
        (mutex # "none" /\ NoTimeout /\ callers[c].outcome = "match")
        => \A i \in 1..Len(callers[c].result) :
              callers[c].result[i] # <<>> => callers[c].result[i] \in OwnRecords(c)

\* C13, first part: without a mutex a call has returned the records of a
\* block answered to the other caller's batch
C13_Witness ==
    /\ mutex = "none"
    /\ \E c \in Callers, d \in Callers :
          /\ c # d
          /\ callers[c].outcome = "match"
          /\ \E i \in 1..Len(callers[c].result) :
                /\ callers[c].result[i] # <<>>
                /\ callers[c].result[i] \notin OwnRecords(c)
                /\ callers[c].result[i] \in OwnRecords(d)

====
